---- MODULE Spec2Model ----
(***************************************************************************)
(* Order management and cash-flow derivation of comp1842-backend.          *)
(*                                                                         *)
(* The model follows the controllers' code: every await on the store       *)
(* (Product, Order, CashFlowTransaction) is one atomic step of a handler,  *)
(* and handlers of different requests interleave at those steps.           *)
(*                                                                         *)
(* Modelling limits: quantities and prices are integers; order prices are  *)
(* multiples of 5, for which totalPrice * 0.4 is an integer; store         *)
(* failures (a rejected promise of the driver) are not modelled.           *)
(***************************************************************************)
EXTENDS Integers, Sequences, FiniteSets, Bags, TLC

\* ---------------------------------------------------------------- bounds
MaxStock == 2
MaxQty == 2
\* How many lines the modelled orders have.
LineCounts == {0, 1, 2}

\* ------------------------------------------------------------ the store
Products == {"p1", "p2"}
Users == {"u1", "u2"}
Requests == {"r1", "r2"}
Syncs == {"s1", "s2"}
Updates == {"c1", "c2"}
\* The ids an order can have, in the order Order.find() returns documents.
OrderIds == <<"o1", "o2", "r1", "r2">>

PaymentMethods == {"cash", "credit_card", "paypal"}
OrderStatusEnum == {"pending", "processing", "shipped", "delivered"}

VARIABLES
    stock,       \* Product.stockQuantity of every stored product
    orders,      \* the Order collection: a set of documents
    pc,          \* createOrder: where each request's handler stands
    body,        \* createOrder: req.body of each request
    idx,         \* createOrder: index of the line the current loop is at
    response,    \* createOrder: the response sent (code and error kind)
    decremented, \* history: what the request's own $inc calls took, per product
    stock0,      \* history: the stock before any request
    stockAtCall, \* history: the stock when the request arrived
    transactions, \* the CashFlowTransaction collection: a bag of documents
    sPc,         \* syncOrdersToTransactions: where each run stands
    sOrders,     \* syncOrdersToTransactions: completedOrders, as Order.find returned it
    sIdx,        \* syncOrdersToTransactions: index of the order the loop is at
    sResults,    \* syncOrdersToTransactions: results, the ids of the orders synced
    syncedCount, \* syncOrdersToTransactions: syncedCount
    uPc,         \* updateOrderStatus: where each call stands
    uOrder,      \* updateOrderStatus: the document findOneAndUpdate returned
    uCode,       \* updateOrderStatus: the status code of the response
    syncLog,     \* history: the sync runs in the order they were answered
    sequential,  \* history: no sync run has started while another was running
    uFailed,     \* updateOrderStatus: the derivation threw and the catch ran
    last,        \* history: the last order query, deletion or status update
    report       \* the body of the last cash-flow report sent

createVars == <<pc, body, idx, response, decremented, stock0, stockAtCall>>
syncVars == <<sPc, sOrders, sIdx, sResults, syncedCount, syncLog, sequential>>
updateVars == <<uPc, uOrder, uCode, uFailed>>
cfVars == <<transactions, syncVars, updateVars>>
reqVars == <<last, report>>
vars == <<stock, orders, createVars, cfVars, reqVars>>
others == <<stock0, cfVars, reqVars>>

\* --------------------------------------------------------- request inputs
\* One line of req.body.products. productId "" is a missing productId,
\* "px" an id no stored product has.
Lines ==
    [productId : Products, quantity : 1..MaxQty]
        \cup {[productId |-> "px", quantity |-> 1],
              [productId |-> "", quantity |-> 1],
              [productId |-> "p1", quantity |-> 0]}

LineLists == UNION {[1..n -> Lines] : n \in LineCounts}

\* req.body of createOrder. given = FALSE: products is absent; paymentMethod
\* "" and status "": the field is absent; totalPrice 0: absent or zero.
Bodies ==
    [given : BOOLEAN, products : LineLists,
     paymentMethod : {"", "cash", "bitcoin"},
     totalPrice : {-5, 0, 100},
     status : {"", "completed"}]

\* The bodies whose scalar fields are valid: the reservation is what varies.
ReserveBodies ==
    {b \in Bodies : b.given /\ b.paymentMethod = "cash"
                    /\ b.totalPrice = 100 /\ b.status = ""}

NoResponse == [code |-> 0, error |-> ""]
NoBody ==
    [given |-> FALSE, products |-> <<>>, paymentMethod |-> "",
     totalPrice |-> 0, status |-> ""]

\* ------------------------------------------------------------ createOrder
\* if (!products || !paymentMethod || !totalPrice): an empty array and a
\* negative number are truthy in JavaScript.
MissingRequired(b) ==
    \/ ~b.given
    \/ b.paymentMethod = ""
    \/ b.totalPrice = 0

\* !item.productId || typeof item.quantity !== 'number' || item.quantity <= 0
InvalidLine(item) == item.productId = "" \/ item.quantity <= 0

\* Mongoose validation of the Order document on save().
StatusOf(b) == IF b.status = "" THEN "processing" ELSE b.status

ValidOrder(b) ==
    /\ b.paymentMethod \in PaymentMethods
    /\ StatusOf(b) \in OrderStatusEnum
    /\ \A i \in 1..Len(b.products) : b.products[i].quantity >= 1

\* Mutant: the comparison off by one.
Insufficient_OffByOne(item) == stock[item.productId] + 1 < item.quantity

\* product.stockQuantity < item.quantity, on the document findById returned.
Insufficient(item) == stock[item.productId] < item.quantity

\* Mutant: the decrement without its stock condition.
DecrementMatches_Unconditional(item) == item.productId \in Products

\* Mutant: $gt in place of $gte.
DecrementMatches_Strict(item) ==
    item.productId \in Products /\ stock[item.productId] > item.quantity

\* The filter of findOneAndUpdate: { _id, stockQuantity: { $gte: quantity } }.
DecrementMatches(item) ==
    item.productId \in Products /\ stock[item.productId] >= item.quantity

\* Mutant: every line takes one unit.
DecrementBy_One(item) == 1

\* The update of findOneAndUpdate: { $inc: { stockQuantity: -item.quantity } }.
DecrementBy(item) == item.quantity

\* req.user.id, set by the authentication middleware.
UserOf(r) == IF r = "r1" THEN "u1" ELSE "u2"

Respond(r, code, error) ==
    /\ pc' = [pc EXCEPT ![r] = "done"]
    /\ response' = [response EXCEPT ![r] = [code |-> code, error |-> error]]

\* The request arrives: the required-field check runs before the first await.
CreateOrderCall(r, b) ==
    /\ pc[r] = "idle"
    /\ body' = [body EXCEPT ![r] = b]
    /\ IF MissingRequired(b)
       THEN Respond(r, 400, "Required")
       ELSE /\ pc' = [pc EXCEPT ![r] =
                        IF Len(b.products) = 0 THEN "save" ELSE "precheck"]
            /\ UNCHANGED response
    /\ stockAtCall' = [stockAtCall EXCEPT ![r] = stock]
    /\ UNCHANGED <<stock, orders, idx, decremented, others>>

\* One iteration of the validation loop: the line's check, then
\* Product.findById and the comparison with the stock it read.
PreCheck(r) ==
    /\ pc[r] = "precheck"
    /\ LET item == body[r].products[idx[r]] IN
       IF InvalidLine(item)
       THEN Respond(r, 400, "InvalidLine") /\ UNCHANGED idx
       ELSE IF item.productId \notin Products
       THEN Respond(r, 400, "ProductNotFound") /\ UNCHANGED idx
       ELSE IF Insufficient(item)
       THEN Respond(r, 400, "InsufficientStock") /\ UNCHANGED idx
       ELSE IF idx[r] < Len(body[r].products)
       THEN /\ idx' = [idx EXCEPT ![r] = idx[r] + 1]
            /\ UNCHANGED <<pc, response>>
       ELSE /\ idx' = [idx EXCEPT ![r] = 1]
            /\ pc' = [pc EXCEPT ![r] = "decrement"]
            /\ UNCHANGED response
    /\ UNCHANGED <<stock, orders, body, decremented, others, stockAtCall>>

\* Mutant: the units the call took are given back before the 409.
OnConflict_Rollback(r) ==
    /\ Respond(r, 409, "Conflict")
    /\ stock' = [p \in Products |-> stock[p] + decremented[r][p]]
    /\ decremented' = [decremented EXCEPT ![r] = [p \in Products |-> 0]]

\* if (!updated) return res.status(409): nothing is compensated.
OnConflict(r) ==
    /\ Respond(r, 409, "Conflict")
    /\ UNCHANGED <<stock, decremented>>

\* One iteration of the decrement loop: the conditional findOneAndUpdate.
Decrement(r) ==
    /\ pc[r] = "decrement"
    /\ LET item == body[r].products[idx[r]] IN
       IF DecrementMatches(item)
       THEN /\ stock' = [stock EXCEPT ![item.productId] = @ - DecrementBy(item)]
            /\ decremented' =
                 [decremented EXCEPT ![r][item.productId] = @ + DecrementBy(item)]
            /\ IF idx[r] < Len(body[r].products)
               THEN idx' = [idx EXCEPT ![r] = idx[r] + 1] /\ UNCHANGED pc
               ELSE pc' = [pc EXCEPT ![r] = "save"] /\ UNCHANGED idx
            /\ UNCHANGED response
       ELSE OnConflict(r) /\ UNCHANGED idx
    /\ UNCHANGED <<orders, body, others, stockAtCall>>

\* new Order({...}); await order.save(): validation, then the insert.
NewOrder(r, date) ==
    [id |-> r, user |-> UserOf(r), products |-> body[r].products,
     paymentMethod |-> body[r].paymentMethod, status |-> StatusOf(body[r]),
     totalPrice |-> body[r].totalPrice, orderDate |-> date]

Save(r) ==
    /\ pc[r] = "save"
    /\ IF ValidOrder(body[r])
       THEN /\ orders' = orders \cup {NewOrder(r, 1)}
            /\ Respond(r, 201, "")
       ELSE /\ Respond(r, 500, "Internal")
            /\ UNCHANGED orders
    /\ UNCHANGED <<stock, body, idx, decremented, others, stockAtCall>>

\* -------------------------------------------------- transaction derivation
\* Mutant: a cost ratio of 60%.
CogsAmount_Sixty(totalPrice) == (totalPrice * 6) \div 10

\* const cogsAmount = order.totalPrice * 0.4 (prices are multiples of 5).
CogsAmount(totalPrice) == (totalPrice * 4) \div 10

ShippingCost == 10

Tx(type, category, amount, order) ==
    [type |-> type, category |-> category, amount |-> amount,
     date |-> order.orderDate, orderId |-> order.id, automated |-> TRUE]

\* generateTransactionFromOrder: the k-th document it saves.
DerivedTx(order, k) ==
    CASE k = 1 -> Tx("inflow", "product_sales", order.totalPrice, order)
      [] k = 2 -> Tx("outflow", "cost_of_goods_sold",
                     CogsAmount(order.totalPrice), order)
      [] k = 3 -> Tx("outflow", "shipping_costs", ShippingCost, order)

\* generateOrderTransactions of middleware/cashFlowAutomation: the derivation
\* of 4.3, three documents saved one after the other, without a guard.
GeneratedTx(order, k) == DerivedTx(order, k)

\* await transaction.save()
SaveTransaction(tx) == transactions' = transactions (+) SetToBag({tx})

\* CashFlowTransaction.find({ orderId }): how many documents it returns.
RECURSIVE Copies(_, _)
Copies(B, S) ==
    IF S = {} THEN 0
    ELSE LET t == CHOOSE x \in S : TRUE
         IN CopiesIn(t, B) + Copies(B, S \ {t})

ExistingTransactions(id) ==
    Copies(transactions, {t \in BagToSet(transactions) : t.orderId = id})

\* Mutant: the existence check dropped.
NothingExists_Always(id) == TRUE

\* existingTransactions.length === 0
NothingExists(id) == ExistingTransactions(id) = 0

\* ------------------------------------------------ syncOrdersToTransactions
\* The date filter: a bound is applied only when the query gives it (0: absent).
InRange(order, startDate, endDate) ==
    /\ startDate # 0 => order.orderDate >= startDate
    /\ endDate # 0 => order.orderDate <= endDate

\* Order.find({ status: 'completed', ...dateFilter })
CompletedOrders(startDate, endDate) ==
    LET Matches(id) ==
            \E o \in orders :
                o.id = id /\ o.status = "completed" /\ InRange(o, startDate, endDate)
        ids == SelectSeq(OrderIds, Matches)
    IN [i \in 1..Len(ids) |-> CHOOSE o \in orders : o.id = ids[i]]

\* res.json({ syncedCount, totalOrdersChecked, results })
SyncRespond(s) ==
    /\ sPc' = [sPc EXCEPT ![s] = "done"]
    /\ syncLog' = Append(syncLog, s)

\* The request arrives, and Order.find returns the completed orders.
SyncCall(s, startDate, endDate) ==
    /\ sPc[s] = "idle"
    /\ LET found == CompletedOrders(startDate, endDate) IN
       /\ sOrders' = [sOrders EXCEPT ![s] = found]
       /\ IF found = <<>>
          THEN SyncRespond(s)
          ELSE sPc' = [sPc EXCEPT ![s] = "check"] /\ UNCHANGED syncLog
    /\ sequential' =
         (sequential /\ \A t \in Syncs : sPc[t] \in {"idle", "done", "failed"})
    /\ UNCHANGED <<stock, orders, createVars, transactions, updateVars,
                   reqVars, sIdx, sResults, syncedCount>>

\* The loop moves to the next order, or the response is sent after the last.
SyncAdvance(s) ==
    IF sIdx[s] < Len(sOrders[s])
    THEN /\ sIdx' = [sIdx EXCEPT ![s] = sIdx[s] + 1]
         /\ sPc' = [sPc EXCEPT ![s] = "check"]
         /\ UNCHANGED syncLog
    ELSE SyncRespond(s) /\ UNCHANGED sIdx

\* CashFlowTransaction.find({ orderId: order._id }) and the test on its length.
SyncCheck(s) ==
    /\ sPc[s] = "check"
    /\ IF NothingExists(sOrders[s][sIdx[s]].id)
       THEN /\ sPc' = [sPc EXCEPT ![s] = "save1"]
            /\ UNCHANGED <<sIdx, syncLog>>
       ELSE SyncAdvance(s)
    /\ UNCHANGED <<stock, orders, createVars, transactions, updateVars,
                   reqVars, sOrders, sResults, syncedCount, sequential>>

\* generateTransactionFromOrder(order): one save() per step; after the
\* third, results.push and syncedCount++.
SyncSave(s, k) ==
    /\ sPc[s] = <<"save1", "save2", "save3">>[k]
    /\ SaveTransaction(DerivedTx(sOrders[s][sIdx[s]], k))
    /\ IF k < 3
       THEN /\ sPc' = [sPc EXCEPT ![s] = <<"save2", "save3">>[k]]
            /\ UNCHANGED <<sIdx, sResults, syncedCount, syncLog>>
       ELSE /\ sResults' =
                 [sResults EXCEPT ![s] = Append(@, sOrders[s][sIdx[s]].id)]
            /\ syncedCount' = [syncedCount EXCEPT ![s] = @ + 1]
            /\ SyncAdvance(s)
    /\ UNCHANGED <<stock, orders, createVars, updateVars, reqVars, sOrders,
                   sequential>>

\* A save() of generateTransactionFromOrder rejects: it rethrows, the catch
\* of syncOrdersToTransactions answers 500. What was saved stays saved.
SyncFail(s) ==
    /\ sPc[s] \in {"save1", "save2", "save3"}
    /\ sPc' = [sPc EXCEPT ![s] = "failed"]
    /\ UNCHANGED <<stock, orders, createVars, transactions, updateVars,
                   reqVars, sOrders, sIdx, sResults, syncedCount, syncLog,
                   sequential>>

\* A transaction entered by hand that names an order in its orderId.
LinkedTx ==
    [type |-> "outflow", category |-> "operating_expenses", amount |-> 5,
     date |-> 1, orderId |-> "o2", automated |-> FALSE]

\* createCashFlowTransaction: new CashFlowTransaction(req.body).save(). (It
\* is entered once.)
CreateCashFlowTransaction(tx) ==
    /\ ~BagIn(tx, transactions)
    /\ SaveTransaction(tx)
    /\ UNCHANGED <<stock, orders, createVars, syncVars, updateVars, reqVars>>

\* -------------------------------------------------------- updateOrderStatus
\* req.user of the callers: an administrator and the two customers.
Callers ==
    {[id |-> "a1", role |-> "admin"]}
        \cup [id : Users, role : {"customer"}]

\* The statuses a request body can carry.
NewStatuses == {"shipped", "completed"}

\* Mutant: the query is never restricted to the caller's orders.
QueryMatches_AnyOwner(o, caller, orderId) == o.id = orderId

\* let query = { _id: orderId }; if (user.role !== 'admin') query.user = userId
QueryMatches(o, caller, orderId) ==
    /\ o.id = orderId
    /\ caller.role # "admin" => o.user = caller.id

\* Mutant: the derivation tied to another status.
TriggersDerivation_Delivered(status) == status = "delivered"

\* if (status === 'completed')
TriggersDerivation(status) == status = "completed"

NoOrder ==
    [id |-> "", user |-> "", products |-> <<>>, paymentMethod |-> "",
     status |-> "", totalPrice |-> 0, orderDate |-> 0]

\* Order.findOneAndUpdate(query, { status }, { new: true }): no validator runs.
\* (What the history variable last records of the call is said where the
\* action is used.)
UpdateOrderStatus(u, caller, orderId, status) ==
    /\ uPc[u] = "idle"
    /\ IF \E o \in orders : QueryMatches(o, caller, orderId)
       THEN LET old == CHOOSE o \in orders : QueryMatches(o, caller, orderId)
                new == [old EXCEPT !.status = status]
            IN /\ orders' = (orders \ {old}) \cup {new}
               /\ uOrder' = [uOrder EXCEPT ![u] = new]
               /\ IF TriggersDerivation(status)
                  THEN uPc' = [uPc EXCEPT ![u] = "save1"] /\ UNCHANGED uCode
                  ELSE /\ uPc' = [uPc EXCEPT ![u] = "done"]
                       /\ uCode' = [uCode EXCEPT ![u] = 200]
       ELSE /\ uPc' = [uPc EXCEPT ![u] = "done"]
            /\ uCode' = [uCode EXCEPT ![u] = 404]
            /\ UNCHANGED <<orders, uOrder>>
    /\ UNCHANGED <<stock, createVars, transactions, syncVars, uFailed, report>>

\* await generateOrderTransactions(order): one save() per step; after the
\* third, res.json(order).
UpdateSave(u, k) ==
    /\ uPc[u] = <<"save1", "save2", "save3">>[k]
    /\ SaveTransaction(GeneratedTx(uOrder[u], k))
    /\ IF k < 3
       THEN uPc' = [uPc EXCEPT ![u] = <<"save2", "save3">>[k]] /\ UNCHANGED uCode
       ELSE /\ uPc' = [uPc EXCEPT ![u] = "done"]
            /\ uCode' = [uCode EXCEPT ![u] = 200]
    /\ UNCHANGED <<stock, orders, createVars, syncVars, reqVars, uOrder, uFailed>>

\* Mutant: the failure of the derivation reaches the outer catch.
OnDerivationFailure_Propagate(u) ==
    /\ uPc' = [uPc EXCEPT ![u] = "done"]
    /\ uCode' = [uCode EXCEPT ![u] = 500]

\* catch (error) { console.error(...) }, and then res.json(order).
OnDerivationFailure(u) ==
    /\ uPc' = [uPc EXCEPT ![u] = "done"]
    /\ uCode' = [uCode EXCEPT ![u] = 200]

\* A save() of the derivation rejects: generateOrderTransactions throws
\* inside the try block of updateOrderStatus. What was saved stays saved.
UpdateFail(u) ==
    /\ uPc[u] \in {"save1", "save2", "save3"}
    /\ OnDerivationFailure(u)
    /\ uFailed' = [uFailed EXCEPT ![u] = TRUE]
    /\ UNCHANGED <<stock, orders, createVars, transactions, syncVars, reqVars,
                   uOrder>>

\* ------------------------------------------------- order queries, deletion
NoCaller == [id |-> "", role |-> ""]

\* The last request of the order queries, deletions and status updates, as
\* the caller saw it: operation, req.user, req.params.id, the status sent,
\* the response and the order collection before and after the handler's
\* store operation (u names the status update's call, code 0 is a response
\* still to come).
NoRequest ==
    [op |-> "", caller |-> NoCaller, arg |-> "", status |-> "", code |-> 0,
     result |-> {}, before |-> {}, after |-> {}, u |-> ""]

Request(op, caller, arg, code, result) ==
    [op |-> op, caller |-> caller, arg |-> arg, status |-> "", code |-> code,
     result |-> result, before |-> orders, after |-> orders', u |-> ""]

\* The users stored: User.findById finds these and no other id.
StoredUsers == {c.id : c \in Callers}

\* The ids a request can name as user: the stored ones and an unknown one.
UserIdArgs == StoredUsers \cup {"ux"}

\* updateOrderStatus with what the caller saw of it recorded.
UpdateOrderStatusCall(u, caller, orderId, status) ==
    /\ UpdateOrderStatus(u, caller, orderId, status)
    /\ last' = [Request("updateOrderStatus", caller, orderId, uCode'[u], {})
                  EXCEPT !.status = status, !.u = u]

\* Mutant: every caller is given the whole collection.
ListFilter_All(caller, o) == TRUE

\* user.role == "admin" ? Order.find() : Order.find({ user: user.id })
ListFilter(caller, o) == caller.role = "admin" \/ o.user = caller.id

\* getAllOrders: res.json(orders). (populate replaces ids by documents and
\* keeps which user and products an order refers to.)
GetAllOrders(caller) ==
    /\ UNCHANGED <<stock, orders, createVars, cfVars, report>>
    /\ last' = Request("getAllOrders", caller, "", 200,
                       {o \in orders : ListFilter(caller, o)})

\* getOrderByOrderId: Order.findOne({ _id: orderId }), 404 when null.
GetOrderByOrderId(caller, orderId) ==
    /\ UNCHANGED <<stock, orders, createVars, cfVars, report>>
    /\ LET found == {o \in orders : o.id = orderId}
       IN last' = Request("getOrderByOrderId", caller, orderId,
                          IF found # {} THEN 200 ELSE 404, found)

\* getOrdersByUserId: User.findById(userId), 404 when null, else
\* Order.find({ user: user._id }). The users do not change, so the two reads
\* are one step.
GetOrdersByUserId(caller, userId) ==
    /\ UNCHANGED <<stock, orders, createVars, cfVars, report>>
    /\ IF userId \in StoredUsers
       THEN last' = Request("getOrdersByUserId", caller, userId, 200,
                            {o \in orders : o.user = userId})
       ELSE last' = Request("getOrdersByUserId", caller, userId, 404, {})

\* Mutant: the customer's deletion is not restricted to the caller's orders.
DeleteMatches_AnyOwner(o, caller, orderId) == o.id = orderId

\* { _id: orderId, user: userId }
DeleteMatches(o, caller, orderId) == o.id = orderId /\ o.user = caller.id

\* Mutant: the transactions that name a removed order go with it.
OnDelete_Cascade(removed) ==
    /\ stock' = stock
    /\ transactions' =
         [t \in {x \in BagToSet(transactions) :
                    \A o \in removed : x.orderId # o.id} |-> transactions[t]]

\* Mutant: the units of the removed order's first line are given back.
OnDelete_Restock(removed) ==
    /\ stock' =
         [p \in Products |->
            IF \E o \in removed : o.products[1].productId = p
            THEN stock[p] + (CHOOSE o \in removed : TRUE).products[1].quantity
            ELSE stock[p]]
    /\ transactions' = transactions

\* Nothing follows findOneAndDelete but the response: no product and no
\* transaction is written.
OnDelete(removed) == UNCHANGED <<stock, transactions>>

\* deleteOrderByCustomer: Order.findOneAndDelete({ _id, user }); 204 when a
\* document was deleted, 404 when none matched.
DeleteOrderByCustomer(caller, orderId) ==
    /\ IF \E o \in orders : DeleteMatches(o, caller, orderId)
       THEN /\ orders' = orders \ {CHOOSE o \in orders :
                                      DeleteMatches(o, caller, orderId)}
            /\ last' = Request("deleteOrderByCustomer", caller, orderId, 204, {})
       ELSE /\ UNCHANGED orders
            /\ last' = Request("deleteOrderByCustomer", caller, orderId, 404, {})
    /\ OnDelete(orders \ orders')
    /\ UNCHANGED <<createVars, syncVars, updateVars, report>>

\* deleteOrderByAdmin: Order.findOneAndDelete({ _id: orderId }).
DeleteOrderByAdmin(caller, orderId) ==
    /\ IF \E o \in orders : o.id = orderId
       THEN /\ orders' = orders \ {CHOOSE o \in orders : o.id = orderId}
            /\ last' = Request("deleteOrderByAdmin", caller, orderId, 204, {})
       ELSE /\ UNCHANGED orders
            /\ last' = Request("deleteOrderByAdmin", caller, orderId, 404, {})
    /\ OnDelete(orders \ orders')
    /\ UNCHANGED <<createVars, syncVars, updateVars, report>>

\* ------------------------------------------------------- cash-flow reports
\* Time is counted in ticks; a calendar day ($dateToString "%Y-%m-%d",
\* toISOString().split('T')[0]) is TicksPerDay consecutive ticks.
TicksPerDay == 2

\* The days of history the forecast averages over.
BasedOnDays == 30

\* The largest number of transactions stored when a report is asked.
MaxTx == 2

DayOf(date) == date \div TicksPerDay

\* The transactions a report can find stored: made by hand through
\* createCashFlowTransaction, of either type and of two categories, dated
\* around the bounds of the windows below.
TxTypes == {"inflow", "outflow"}
TxCategories == {"product_sales", "operating_expenses"}
TxDates == {20, 21, 78, 81}

AmountOfCategory(category) == IF category = "product_sales" THEN 30 ELSE 10

ManualTx ==
    {[type |-> type, category |-> category,
      amount |-> AmountOfCategory(category), date |-> date, orderId |-> "",
      automated |-> FALSE] :
        type \in TxTypes, category \in TxCategories, date \in TxDates}

\* new Date() of a request, the period and the days it can ask for.
Nows == {80, 81}
Periods == {1, 2}
ForecastDays == {0, 1, 2}

RECURSIVE BagOfSeq(_)
BagOfSeq(s) ==
    IF s = <<>> THEN EmptyBag
    ELSE SetToBag({Head(s)}) (+) BagOfSeq(Tail(s))

\* The collections of at most MaxTx transactions, copies included.
Collections ==
    {BagOfSeq(s) : s \in UNION {[1..n -> ManualTx] : n \in 0..MaxTx}}

RECURSIVE SumAmount(_, _)
\* { $sum: '$amount' } over the documents S of the collection B.
SumAmount(B, S) ==
    IF S = {} THEN 0
    ELSE LET t == CHOOSE x \in S : TRUE
         IN t.amount * CopiesIn(t, B) + SumAmount(B, S \ {t})

\* Mutant: a window open at its start.
InWindow_OpenStart(date, startDate, endDate) ==
    date > startDate /\ date <= endDate

\* date: { $gte: startDate, $lte: endDate }
InWindow(date, startDate, endDate) == date >= startDate /\ date <= endDate

\* $match: { type, date: { $gte: startDate, $lte: endDate } }
Matched(type, startDate, endDate) ==
    {t \in BagToSet(transactions) :
        t.type = type /\ InWindow(t.date, startDate, endDate)}

\* $match: { type }
OfType(type) == {t \in BagToSet(transactions) : t.type = type}

RECURSIVE GCD(_, _)
GCD(a, b) == IF b = 0 THEN a ELSE GCD(b, a % b)

\* A quotient of two numbers, kept exact and in lowest terms. (den > 0.)
Ratio(num, den) ==
    LET g == GCD(IF num < 0 THEN -num ELSE num, den)
    IN [num |-> num \div g, den |-> den \div g]

\* cashBurnRate > 0 ? Math.floor(currentBalance / cashBurnRate) : null, the
\* number in a one-element sequence and null the empty one. (period >= 1.)
Runway(currentBalance, cashBurnRate) ==
    IF cashBurnRate.num > 0
    THEN <<(currentBalance * cashBurnRate.den) \div cashBurnRate.num>>
    ELSE <<>>

\* calculateDashboardData(startDate, endDate, period): the four aggregates
\* read the same collection.
calculateDashboardData(startDate, endDate, period) ==
    LET totalInflows ==
            SumAmount(transactions, Matched("inflow", startDate, endDate))
        totalOutflows ==
            SumAmount(transactions, Matched("outflow", startDate, endDate))
        currentBalance ==
            SumAmount(transactions, OfType("inflow"))
                - SumAmount(transactions, OfType("outflow"))
        cashBurnRate == Ratio(totalOutflows, period)
    IN [totalInflows |-> totalInflows,
        totalOutflows |-> totalOutflows,
        netCashFlow |-> totalInflows - totalOutflows,
        currentBalance |-> currentBalance,
        cashBurnRate |-> cashBurnRate,
        runway |-> Runway(currentBalance, cashBurnRate),
        period |-> period]

\* The answer of the last report: which one, the window it read (endDate is
\* the first new Date() of the handler, startDate the second one set back by
\* the days asked), and the body sent.
NoReport ==
    [op |-> "", startDate |-> 0, endDate |-> 0, days |-> 0, data |-> <<>>]

Report(op, startDate, endDate, days, data) ==
    [op |-> op, startDate |-> startDate, endDate |-> endDate, days |-> days,
     data |-> data]

\* startDate.setDate(startDate.getDate() - days)
DaysBefore(date, days) == date - days * TicksPerDay

\* getCashFlowDashboard. now and later are its two readings of the clock.
GetCashFlowDashboard(now, later, days) ==
    /\ report' = Report("dashboard", DaysBefore(later, days), now, days,
                        calculateDashboardData(DaysBefore(later, days), now,
                                               days))
    /\ UNCHANGED <<stock, orders, createVars, cfVars, last>>


\* The two $group stages of the history: the day's total of one type, over
\* the documents the $match let through.
DayTotal(type, day, startDate, endDate) ==
    SumAmount(transactions,
              {t \in Matched(type, startDate, endDate) : DayOf(t.date) = day})

\* dailyData.find(d => d._id === dateStr) and the record pushed for the day
\* (a day without a group gives 0 through || 0).
HistoryRecord(day, startDate, endDate) ==
    LET inflows == DayTotal("inflow", day, startDate, endDate)
        outflows == DayTotal("outflow", day, startDate, endDate)
    IN [date |-> day, inflows |-> inflows, outflows |-> outflows,
        netFlow |-> inflows - outflows]

RECURSIVE HistoryLoop(_, _, _)
\* while (currentDate <= endDate) { push; currentDate.setDate(+1) }
HistoryLoop(currentDate, startDate, endDate) ==
    IF currentDate <= endDate
    THEN <<HistoryRecord(DayOf(currentDate), startDate, endDate)>>
             \o HistoryLoop(currentDate + TicksPerDay, startDate, endDate)
    ELSE <<>>

\* getCashFlowHistory
GetCashFlowHistory(now, later, days) ==
    /\ report' = Report("history", DaysBefore(later, days), now, days,
                        HistoryLoop(DaysBefore(later, days),
                                    DaysBefore(later, days), now))
    /\ UNCHANGED <<stock, orders, createVars, cfVars, last>>

\* The group of one category after the second $group: both types' totals and
\* transactionCount, the $sum of the counts of both types.
CategoryGroup(category, startDate, endDate) ==
    LET of(type) == {t \in Matched(type, startDate, endDate) :
                        t.category = category}
    IN [category |-> category,
        inflows |-> SumAmount(transactions, of("inflow")),
        outflows |-> SumAmount(transactions, of("outflow")),
        transactionCount |-> Copies(transactions, of("inflow"))
                                + Copies(transactions, of("outflow"))]

\* The groups of the categories that have a document in the window.
CategoryGroups(startDate, endDate) ==
    {CategoryGroup(t.category, startDate, endDate) :
        t \in Matched("inflow", startDate, endDate)
                \cup Matched("outflow", startDate, endDate)}

\* $sort: { inflows: -1, outflows: -1 }: g has to come before h.
SortsBefore(g, h) ==
    \/ g.inflows > h.inflows
    \/ g.inflows = h.inflows /\ g.outflows > h.outflows

\* The orders in which the sorted groups can come back (ties in any order).
SortedGroups(groups) ==
    {data \in [1..Cardinality(groups) -> groups] :
        \A i, j \in 1..Cardinality(groups) :
            i < j => data[i] # data[j] /\ ~SortsBefore(data[j], data[i])}

IsInflowItem(item) == item.inflows > 0

IsOutflowItem(item) == item.outflows > 0

\* .filter(item => item.inflows > 0).map(item => ({category, amount, count}))
InflowEntries(categoryData) ==
    LET kept == SelectSeq(categoryData, IsInflowItem)
    IN [i \in 1..Len(kept) |->
          [category |-> kept[i].category, amount |-> kept[i].inflows,
           count |-> kept[i].transactionCount]]

\* .filter(item => item.outflows > 0).map(...)
OutflowEntries(categoryData) ==
    LET kept == SelectSeq(categoryData, IsOutflowItem)
    IN [i \in 1..Len(kept) |->
          [category |-> kept[i].category, amount |-> kept[i].outflows,
           count |-> kept[i].transactionCount]]

RECURSIVE SumEntries(_)
\* entries.reduce((sum, item) => sum + item.amount, 0)
SumEntries(entries) ==
    IF entries = <<>> THEN 0
    ELSE Head(entries).amount + SumEntries(Tail(entries))

\* getCashFlowByCategory
GetCashFlowByCategory(now, later, days) ==
    /\ \E categoryData \in SortedGroups(CategoryGroups(DaysBefore(later, days),
                                                       now)) :
          report' =
              Report("byCategory", DaysBefore(later, days), now, days,
                     [inflows |-> InflowEntries(categoryData),
                      outflows |-> OutflowEntries(categoryData),
                      period |-> days,
                      totalInflowAmount |->
                          SumEntries(InflowEntries(categoryData)),
                      totalOutflowAmount |->
                          SumEntries(OutflowEntries(categoryData))])
    /\ UNCHANGED <<stock, orders, createVars, cfVars, last>>

\* Sum and difference of quotients.
Plus(a, b) == Ratio(a.num * b.den + b.num * a.den, a.den * b.den)

Minus(a, b) == Ratio(a.num * b.den - b.num * a.den, a.den * b.den)

\* Mutant: the hundredths cut off instead of rounded.
Round2_Truncate(x) == (100 * x.num) \div x.den

\* Math.round(x * 100) / 100, as a number of hundredths: Math.round takes
\* the nearest integer and the upper one at a half. (x.den > 0.)
Round2(x) == (200 * x.num + x.den) \div (2 * x.den)

RECURSIVE ForecastLoop(_, _, _, _)
\* for (i = 1; i <= forecastDays; i++) { currentBalance += (avgDailyInflow -
\* avgDailyOutflow); forecast.push({...}) }: the records pushed and the
\* balance the loop ends with.
ForecastLoop(i, forecastDays, currentBalance, netDaily) ==
    IF i <= forecastDays
    THEN LET balance == Plus(currentBalance, netDaily)
             rest == ForecastLoop(i + 1, forecastDays, balance, netDaily)
         IN [forecast |-> <<[day |-> i,
                             projectedBalance |-> Round2(balance)]>>
                              \o rest.forecast,
             currentBalance |-> rest.currentBalance]
    ELSE [forecast |-> <<>>, currentBalance |-> currentBalance]

\* forecast[forecast.length - 1]?.projectedBalance || currentBalance
FinalBalance(loop) ==
    IF loop.forecast # <<>>
          /\ loop.forecast[Len(loop.forecast)].projectedBalance # 0
    THEN Ratio(loop.forecast[Len(loop.forecast)].projectedBalance, 100)
    ELSE loop.currentBalance

\* getCashFlowForecast: the averages of the last BasedOnDays days carried
\* forward from the all-time balance. Amounts of the body are in hundredths.
GetCashFlowForecast(now, later, forecastDays) ==
    /\ LET startDate == DaysBefore(later, BasedOnDays)
           historicalData == calculateDashboardData(startDate, now, BasedOnDays)
           avgDailyInflow == Ratio(historicalData.totalInflows, BasedOnDays)
           avgDailyOutflow == Ratio(historicalData.totalOutflows, BasedOnDays)
           loop == ForecastLoop(1, forecastDays,
                                Ratio(historicalData.currentBalance, 1),
                                Minus(avgDailyInflow, avgDailyOutflow))
       IN report' =
              Report("forecast", startDate, now, forecastDays,
                     [forecast |-> loop.forecast,
                      forecastPeriodDays |-> forecastDays,
                      startingBalance |-> historicalData.currentBalance,
                      projectedEndingBalance |-> Round2(FinalBalance(loop))])
    /\ UNCHANGED <<stock, orders, createVars, cfVars, last>>

\* ---------------------------------------------------------- specification
\* No request is in progress and no transaction is stored.
InitIdle ==
    /\ pc = [r \in Requests |-> "idle"]
    /\ body = [r \in Requests |-> NoBody]
    /\ idx = [r \in Requests |-> 1]
    /\ decremented = [r \in Requests |-> [p \in Products |-> 0]]
    /\ response = [r \in Requests |-> NoResponse]
    /\ stock0 = stock
    /\ stockAtCall = [r \in Requests |-> stock]
    /\ sPc = [s \in Syncs |-> "idle"]
    /\ sOrders = [s \in Syncs |-> <<>>]
    /\ sIdx = [s \in Syncs |-> 1]
    /\ sResults = [s \in Syncs |-> <<>>]
    /\ syncedCount = [s \in Syncs |-> 0]
    /\ syncLog = <<>>
    /\ sequential = TRUE
    /\ uPc = [u \in Updates |-> "idle"]
    /\ uOrder = [u \in Updates |-> NoOrder]
    /\ uCode = [u \in Updates |-> 0]
    /\ uFailed = [u \in Updates |-> FALSE]
    /\ last = NoRequest
    /\ report = NoReport

\* The products have some stock and no order exists yet.
Init ==
    /\ stock \in [Products -> 0..MaxStock]
    /\ orders = {}
    /\ transactions = EmptyBag
    /\ InitIdle

Next ==
    \E r \in Requests :
        \/ \E b \in ReserveBodies : CreateOrderCall(r, b)
        \/ PreCheck(r)
        \/ Decrement(r)
        \/ Save(r)

Spec == Init /\ [][Next]_vars

\* One request at a time, with every shape of body.
NextValidate ==
    \E r \in {"r1"} :
        \/ \E b \in Bodies : CreateOrderCall(r, b)
        \/ PreCheck(r)
        \/ Decrement(r)
        \/ Save(r)

SpecValidate == Init /\ [][NextValidate]_vars

\* The prices and dates of the orders the store holds at the start.
Prices == {5, 100}
RangeDates == {0, 1, 2}

StoredOrder(id, user, date, status, price) ==
    [id |-> id, user |-> user,
     products |-> <<[productId |-> "p1", quantity |-> 1]>>,
     paymentMethod |-> "cash", status |-> status, totalPrice |-> price,
     orderDate |-> date]

\* Two orders are stored, of different customers and days, no transaction yet.
InitCF ==
    /\ stock = [p \in Products |-> MaxStock]
    /\ \E st1, st2 \in {"processing", "completed"} : \E pr1 \in Prices :
          orders = {StoredOrder("o1", "u1", 1, st1, pr1),
                    StoredOrder("o2", "u2", 2, st2, 100)}
    /\ transactions = EmptyBag
    /\ InitIdle

NextCF ==
    \/ \E s \in Syncs :
          \/ \E startDate, endDate \in RangeDates : SyncCall(s, startDate, endDate)
          \/ SyncCheck(s)
          \/ \E k \in 1..3 : SyncSave(s, k)
    \/ \E u \in Updates :
          \/ \E caller \in Callers : \E i \in 1..Len(OrderIds) :
                \E status \in NewStatuses :
                    UpdateOrderStatus(u, caller, OrderIds[i], status)
                        /\ UNCHANGED last
          \/ \E k \in 1..3 : UpdateSave(u, k)

SpecCF == InitCF /\ [][NextCF]_vars

\* Status updates whose derivation can fail at any of its saves.
NextFail ==
    \E u \in Updates :
        \/ \E caller \in Callers : \E i \in 1..Len(OrderIds) :
              \E status \in NewStatuses :
                  UpdateOrderStatus(u, caller, OrderIds[i], status)
                      /\ UNCHANGED last
        \/ \E k \in 1..3 : UpdateSave(u, k)
        \/ UpdateFail(u)

SpecFail == InitCF /\ [][NextFail]_vars

\* The order queries, deletions and status updates over two stored orders.
\* The routes admit customers only to DELETE /:id and admins only to
\* DELETE /admin/:id; updateOrderStatus is taken with every caller, as its
\* handler treats them.
NextAccess ==
    \/ \E caller \in Callers :
          \/ GetAllOrders(caller)
          \/ \E i \in 1..Len(OrderIds) : GetOrderByOrderId(caller, OrderIds[i])
          \/ \E userId \in UserIdArgs : GetOrdersByUserId(caller, userId)
          \/ \E i \in 1..Len(OrderIds) :
                /\ caller.role = "customer"
                /\ DeleteOrderByCustomer(caller, OrderIds[i])
          \/ \E i \in 1..Len(OrderIds) :
                /\ caller.role = "admin"
                /\ DeleteOrderByAdmin(caller, OrderIds[i])
          \/ \E u \in Updates : \E i \in 1..Len(OrderIds) :
                \E status \in NewStatuses :
                    UpdateOrderStatusCall(u, caller, OrderIds[i], status)
    \/ \E u \in Updates : \E k \in 1..3 : UpdateSave(u, k)

SpecAccess == InitCF /\ [][NextAccess]_vars

\* Some transactions are stored and nothing else happens: reports are asked.
InitReport ==
    /\ stock = [p \in Products |-> MaxStock]
    /\ orders = {}
    /\ transactions \in Collections
    /\ InitIdle

\* The second reading of the clock is the first one or the tick after it.
NextReport ==
    \E now \in Nows : \E later \in {now, now + 1} :
        \/ \E days \in Periods :
              \/ GetCashFlowDashboard(now, later, days)
              \/ GetCashFlowHistory(now, later, days)
              \/ GetCashFlowByCategory(now, later, days)
        \/ \E forecastDays \in ForecastDays :
              GetCashFlowForecast(now, later, forecastDays)

SpecReport == InitReport /\ [][NextReport]_vars

\* The statuses a request body can carry when nothing restricts it: req.body
\* is not validated, so a value outside every enumeration is one of them.
AnyStatuses == NewStatuses \cup {"delivered", "refunded"}

\* Status updates with any status in the body.
NextStatus ==
    \E u \in Updates :
        \/ \E caller \in Callers : \E i \in 1..Len(OrderIds) :
              \E status \in AnyStatuses :
                  UpdateOrderStatus(u, caller, OrderIds[i], status)
                      /\ UNCHANGED last
        \/ \E k \in 1..3 : UpdateSave(u, k)

SpecStatus == InitCF /\ [][NextStatus]_vars

\* Bulk sync runs whose saves can fail, and a transaction entered by hand
\* while no run is under way.
NextRecover ==
    \/ \E s \in Syncs :
          \/ \E startDate, endDate \in RangeDates : SyncCall(s, startDate, endDate)
          \/ SyncCheck(s)
          \/ \E k \in 1..3 : SyncSave(s, k)
          \/ SyncFail(s)
    \/ /\ \A s \in Syncs : sPc[s] \in {"idle", "done", "failed"}
       /\ CreateCashFlowTransaction(LinkedTx)

SpecRecover == InitCF /\ [][NextRecover]_vars

\* The bodies whose lines all name a stored product with a positive quantity.
ShopBodies ==
    {b \in ReserveBodies :
        /\ b.products # <<>>
        /\ \A i \in 1..Len(b.products) :
              b.products[i].productId \in Products /\ b.products[i].quantity > 0}

\* Every product is fully stocked and no order exists yet.
InitShop ==
    /\ stock = [p \in Products |-> MaxStock]
    /\ orders = {}
    /\ transactions = EmptyBag
    /\ InitIdle

\* createOrder calls next to deletions of the orders they create, by the
\* callers the routes admit.
NextShop ==
    \/ \E r \in Requests :
          \/ \E b \in ShopBodies : CreateOrderCall(r, b)
          \/ PreCheck(r)
          \/ Decrement(r)
          \/ Save(r)
    \/ \E caller \in Callers : \E orderId \in Requests :
          \/ caller.role = "customer" /\ DeleteOrderByCustomer(caller, orderId)
          \/ caller.role = "admin" /\ DeleteOrderByAdmin(caller, orderId)

SpecShop == InitShop /\ [][NextShop]_vars

\* ------------------------------------------------------ claims: createOrder
HasOrder(r) == \E o \in orders : o.id = r

RECURSIVE LineTotal(_, _)
\* The quantity a list of lines asks of product p, over all its lines.
LineTotal(lines, p) ==
    IF lines = <<>> THEN 0
    ELSE (IF Head(lines).productId = p THEN Head(lines).quantity ELSE 0)
             + LineTotal(Tail(lines), p)

NoStockTaken(r) == \A p \in Products : decremented[r][p] = 0

SingleLine(r, p, q) ==
    /\ pc[r] # "idle"
    /\ ~MissingRequired(body[r])
    /\ body[r].products = <<[productId |-> p, quantity |-> q]>>

\* C1: in every reachable state every product's stockQuantity is >= 0,
\* whatever the interleaving of the createOrder requests.
C1_StockNonNegative == \A p \in Products : stock[p] >= 0

\* C1 witness: both requests passed the pre-check on the same product, one
\* took the last unit and the other's conditional decrement found no match.
C1_Witness ==
    \E p \in Products :
        /\ stock0[p] > 0 /\ stock[p] = 0
        /\ decremented["r1"][p] > 0
        /\ response["r2"].code = 409

\* The setting of C2: product p started with one unit, and both requests are
\* valid single-line orders of one unit of p that have been answered.
C2_Setting(p) ==
    /\ stock0[p] = 1
    /\ \A r \in Requests : SingleLine(r, p, 1) /\ pc[r] = "done"

\* C2 as stated: under every interleaving exactly one of the two calls ends
\* with 201 and the other with 409.
C2_OneCreatedOtherConflict ==
    \A p \in Products :
        C2_Setting(p) =>
            \E r \in Requests :
                /\ response[r].code = 201
                /\ \A q \in Requests \ {r} : response[q].code = 409

\* C2 amended: exactly one call ends with 201 and its order is kept; the
\* other keeps no order and ends with 409 or, when its pre-check read the
\* stock after the winner's decrement (always so when it arrived after it),
\* with 400 InsufficientStock. The one unit is taken.
C2_OneCreatedOtherRefused ==
    \A p \in Products :
        C2_Setting(p) =>
            /\ \E r \in Requests :
                /\ response[r].code = 201 /\ HasOrder(r)
                /\ \A q \in Requests \ {r} :
                    /\ ~HasOrder(q)
                    /\ \/ response[q].code = 409
                       \/ response[q] = [code |-> 400, error |-> "InsufficientStock"]
                    /\ stockAtCall[q][p] = 0 => response[q].code = 400
            /\ stock[p] = 0

\* C2 witness: the race itself, one 201 and one 409 on the last unit.
C2_Witness ==
    \E p \in Products :
        /\ C2_Setting(p)
        /\ response["r1"].code = 409
        /\ response["r2"].code = 201

\* C3: an order is persisted for a call, and 201 returned, only if the
\* conditional decrement succeeded on every one of its lines, each taking
\* exactly the line's quantity from its product; a call that ended any other
\* way persisted no order. The stock that left the store is what the calls took.
C3_OrderOnlyAfterAllDecrements ==
    /\ \A r \in Requests :
        /\ HasOrder(r) <=> response[r].code = 201
        /\ HasOrder(r) =>
            \A p \in Products :
                decremented[r][p] = LineTotal(body[r].products, p)
        /\ \A o \in orders : o.id = r => o.products = body[r].products
    /\ \A p \in Products :
        stock0[p] - stock[p] =
            decremented["r1"][p] + decremented["r2"][p]

\* C3 witness: a two-line order was persisted after both decrements.
C3_Witness ==
    \E r \in Requests :
        /\ HasOrder(r)
        /\ Len(body[r].products) = 2
        /\ \A p \in Products : decremented[r][p] >= 1

\* The first line of the call whose quantity exceeds the stock its product
\* had when the call arrived (0 when there is none).
FirstShort(r) ==
    LET short == {i \in 1..Len(body[r].products) :
                    /\ body[r].products[i].productId \in Products
                    /\ body[r].products[i].quantity >
                         stockAtCall[r][body[r].products[i].productId]}
    IN IF short = {} THEN 0
       ELSE CHOOSE i \in short : \A j \in short : i <= j

C4_Setting(r) ==
    /\ pc[r] = "done"
    /\ ~MissingRequired(body[r])
    /\ FirstShort(r) > 0

\* C4 as stated: a call with a line that asks more than the current stock of
\* its product returns InsufficientStock (400), changes no stock and
\* persists no order.
C4_InsufficientStockReturned ==
    \A r \in Requests :
        C4_Setting(r) =>
            /\ response[r] = [code |-> 400, error |-> "InsufficientStock"]
            /\ NoStockTaken(r)
            /\ ~HasOrder(r)

\* C4 amended: such a call returns 400, changes no stock and persists no
\* order; the error is InsufficientStock unless a line before the short one
\* is rejected first, as an invalid line or for a product that is not found.
C4_RejectedBeforeAnyCommit ==
    \A r \in Requests :
        C4_Setting(r) =>
            /\ response[r].code = 400
            /\ response[r].error \in
                 {"InsufficientStock", "InvalidLine", "ProductNotFound"}
            /\ (\A i \in 1..(FirstShort(r) - 1) :
                    /\ ~InvalidLine(body[r].products[i])
                    /\ body[r].products[i].productId \in Products)
                 => response[r].error = "InsufficientStock"
            /\ NoStockTaken(r)
            /\ ~HasOrder(r)

\* C4 witness: the second line is the short one, and the call was refused
\* with InsufficientStock.
C4_Witness ==
    \E r \in Requests :
        /\ C4_Setting(r)
        /\ FirstShort(r) = 2
        /\ response[r].error = "InsufficientStock"

\* C5: createOrder with an empty list of lines, or with a totalPrice that is
\* not positive, fails with 400, persists no order and changes no stock.
C5_EmptyOrNonPositiveRejected ==
    \A r \in Requests :
        (/\ pc[r] = "done"
         /\ \/ body[r].given /\ body[r].products = <<>>
            \/ body[r].totalPrice <= 0)
            => /\ response[r].code = 400
               /\ ~HasOrder(r)
               /\ NoStockTaken(r)

\* C6: createOrder with a paymentMethod outside {cash, credit_card, paypal},
\* its lines valid and the stock sufficient, is rejected with 400 without
\* side effects: no stock is changed and no order is persisted.
C6_BadPaymentMethodRejected ==
    \A r \in Requests :
        (/\ pc[r] = "done"
         /\ body[r].given
         /\ body[r].totalPrice > 0
         /\ body[r].paymentMethod \notin PaymentMethods
         /\ body[r].products # <<>>
         /\ \A i \in 1..Len(body[r].products) :
              /\ ~InvalidLine(body[r].products[i])
              /\ body[r].products[i].productId \in Products
         /\ \A p \in Products :
              LineTotal(body[r].products, p) <= stockAtCall[r][p])
            => /\ response[r].code = 400
               /\ NoStockTaken(r)
               /\ ~HasOrder(r)

\* ---------------------------------------------- claims: cash-flow derivation
\* The stored transactions that carry the order's id, as a bag.
TransactionsOf(id) ==
    LET S == {t \in BagToSet(transactions) : t.orderId = id}
    IN [t \in S |-> CopiesIn(t, transactions)]

CategoryCount(id, category) ==
    Copies(transactions,
           {t \in BagToSet(transactions) :
                t.orderId = id /\ t.category = category})

SyncSaving(s) == sPc[s] \in {"save1", "save2", "save3"}
UpdateSaving(u) == uPc[u] \in {"save1", "save2", "save3"}

\* The sync runs that derived the order's transactions, and those at it.
SyncsDerived(id) ==
    {s \in Syncs : \E i \in 1..Len(sResults[s]) : sResults[s][i] = id}
SyncsDeriving(id) ==
    {s \in Syncs : SyncSaving(s) /\ sOrders[s][sIdx[s]].id = id}

\* The updateOrderStatus calls that set the order completed: answered, running.
UpdatesDerived(id) ==
    {u \in Updates : uPc[u] = "done" /\ uCode[u] = 200
                     /\ uOrder[u].id = id /\ uOrder[u].status = "completed"}
UpdatesDeriving(id) ==
    {u \in Updates : UpdateSaving(u) /\ uOrder[u].id = id}

StepsDone(p) == CASE p = "save1" -> 0 [] p = "save2" -> 1 [] p = "save3" -> 2

RECURSIVE SumOver(_, _)
SumOver(S, f) ==
    IF S = {} THEN 0
    ELSE LET x == CHOOSE y \in S : TRUE IN f[x] + SumOver(S \ {x}, f)

\* C7: deriving transactions for an order creates exactly three
\* transactions, all with the order's id, its orderDate and automated = true:
\* inflow/product_sales of totalPrice, outflow/cost_of_goods_sold of
\* 0.4 x totalPrice and outflow/shipping_costs of 10.
C7_ThreeTransactionsDerived ==
    \A s \in Syncs : \A i \in 1..Len(sOrders[s]) :
        LET o == sOrders[s][i] IN
        (/\ SyncsDerived(o.id) = {s}
         /\ SyncsDeriving(o.id) = {}
         /\ UpdatesDerived(o.id) \cup UpdatesDeriving(o.id) = {})
            => /\ ExistingTransactions(o.id) = 3
               /\ \A t \in DOMAIN TransactionsOf(o.id) :
                    /\ t.orderId = o.id
                    /\ t.date = o.orderDate
                    /\ t.automated = TRUE
                    /\ TransactionsOf(o.id)[t] = 1
               /\ \E t \in DOMAIN TransactionsOf(o.id) :
                    /\ t.type = "inflow" /\ t.category = "product_sales"
                    /\ t.amount = o.totalPrice
               /\ \E t \in DOMAIN TransactionsOf(o.id) :
                    /\ t.type = "outflow" /\ t.category = "cost_of_goods_sold"
                    /\ 10 * t.amount = 4 * o.totalPrice
               /\ \E t \in DOMAIN TransactionsOf(o.id) :
                    /\ t.type = "outflow" /\ t.category = "shipping_costs"
                    /\ t.amount = 10

\* C7 witness: an order of 100 was derived once: 100, 40 and 10 are stored.
C7_Witness ==
    \E s \in Syncs : \E i \in 1..Len(sOrders[s]) :
        LET o == sOrders[s][i] IN
        /\ o.totalPrice = 100
        /\ SyncsDerived(o.id) = {s}
        /\ ExistingTransactions(o.id) = 3
        /\ {t.amount : t \in DOMAIN TransactionsOf(o.id)} = {100, 40, 10}

\* The position of a run in the log of answered runs (0: not answered).
LogPosition(s) ==
    IF \E i \in 1..Len(syncLog) : syncLog[i] = s
    THEN CHOOSE i \in 1..Len(syncLog) : syncLog[i] = s
    ELSE 0

Checked(s, id) == \E i \in 1..Len(sOrders[s]) : sOrders[s][i].id = id

\* C8: bulk sync runs that follow one another over the same completed order
\* leave exactly 3 transactions with its orderId, one of each category, and
\* every run after the first that checked it syncs nothing for it.
C8_SequentialSyncIdempotent ==
    \A i \in 1..Len(OrderIds) :
        LET id == OrderIds[i] IN
        (/\ sequential
         /\ UpdatesDerived(id) \cup UpdatesDeriving(id) = {})
            => \A s \in Syncs :
                (LogPosition(s) > 0 /\ Checked(s, id)) =>
                    /\ ExistingTransactions(id) = 3
                    /\ CategoryCount(id, "product_sales") = 1
                    /\ CategoryCount(id, "cost_of_goods_sold") = 1
                    /\ CategoryCount(id, "shipping_costs") = 1
                    /\ \A t \in Syncs :
                        (Checked(t, id) /\ sPc[t] # "idle" /\ t # s
                         /\ (LogPosition(t) = 0 \/ LogPosition(t) > LogPosition(s)))
                            => /\ t \notin SyncsDerived(id)
                               /\ t \notin SyncsDeriving(id)
                               /\ (Len(sOrders[t]) = 1 /\ LogPosition(t) > 0
                                     => syncedCount[t] = 0)

\* C8 witness: two runs, one after the other, both checked the same order;
\* the first synced it and the second reported syncedCount = 0.
C8_Witness ==
    /\ sequential
    /\ Len(syncLog) = 2
    /\ sOrders[syncLog[1]] = sOrders[syncLog[2]]
    /\ Len(sOrders[syncLog[1]]) = 1
    /\ syncedCount[syncLog[1]] = 1
    /\ syncedCount[syncLog[2]] = 0
    /\ ExistingTransactions(sOrders[syncLog[1]][1].id) = 3

\* C9: whenever transactions are derived by bulk sync runs only, two
\* interleaved runs included, each order has at most one product_sales, one
\* cost_of_goods_sold and one shipping_costs transaction with its orderId.
C9_AtMostOneSetPerOrder ==
    \A i \in 1..Len(OrderIds) :
        LET id == OrderIds[i] IN
        UpdatesDerived(id) \cup UpdatesDeriving(id) = {}
            => /\ CategoryCount(id, "product_sales") <= 1
               /\ CategoryCount(id, "cost_of_goods_sold") <= 1
               /\ CategoryCount(id, "shipping_costs") <= 1

\* C10: the per-order trigger has no existence guard: every answered
\* updateOrderStatus call that set an order completed added three
\* transactions of its own, whatever was stored already, so that the order's
\* transactions are three per derivation made (by a call or by a sync run)
\* plus those of the derivations in progress; two calls alone leave 6.
C10_TriggerDerivesEveryTime ==
    \A i \in 1..Len(OrderIds) :
        LET id == OrderIds[i] IN
        /\ ExistingTransactions(id) =
             3 * Cardinality(UpdatesDerived(id))
               + 3 * Cardinality(SyncsDerived(id))
               + SumOver(UpdatesDeriving(id), [u \in Updates |-> StepsDone(uPc[u])])
               + SumOver(SyncsDeriving(id), [s \in Syncs |-> StepsDone(sPc[s])])
        /\ (/\ Cardinality(UpdatesDerived(id)) = 2
            /\ SyncsDerived(id) \cup SyncsDeriving(id) = {})
              => ExistingTransactions(id) = 6

\* C10 witness: two calls set the same order completed, the second after a
\* full set was stored: 6 transactions carry its id.
C10_Witness ==
    \E i \in 1..Len(OrderIds) :
        /\ Cardinality(UpdatesDerived(OrderIds[i])) = 2
        /\ SyncsDerived(OrderIds[i]) = {}
        /\ ExistingTransactions(OrderIds[i]) = 6
        /\ CategoryCount(OrderIds[i], "product_sales") = 2

\* ------------------------------------------------- claims: updateOrderStatus
\* C11: when updateOrderStatus set an order completed and the derivation of
\* its transactions failed, the call still answers 200 with the order, never
\* 500, and the stored status stays completed (as long as no other call has
\* written that order's status).
C11_DerivationFailureSwallowed ==
    \A u \in Updates :
        uFailed[u] =>
            /\ uPc[u] = "done"
            /\ uCode[u] = 200
            /\ uOrder[u].status = "completed"
            /\ (\A v \in Updates \ {u} : uOrder[v].id # uOrder[u].id)
                 => \E o \in orders :
                        o.id = uOrder[u].id /\ o.status = "completed"

\* C11 witness: the second save failed: one transaction is stored, the
\* order is completed and the call answered 200.
C11_Witness ==
    \E u \in Updates :
        /\ uFailed[u]
        /\ uCode[u] = 200
        /\ ExistingTransactions(uOrder[u].id) = 1
        /\ \E o \in orders : o.id = uOrder[u].id /\ o.status = "completed"

\* ------------------------------------------------- claims: partial fulfilment
\* C20: when createOrder answers 409 at line k, the units of lines 1..k-1
\* are taken from the stock and stay taken, line k and the lines after it
\* take nothing, and no order of the call is persisted.
C20_ConflictKeepsEarlierDecrements ==
    \A r \in Requests :
        response[r].code = 409 =>
            /\ pc[r] = "done"
            /\ ~HasOrder(r)
            /\ idx[r] \in 1..Len(body[r].products)
            /\ \A p \in Products :
                /\ decremented[r][p] =
                     LineTotal(SubSeq(body[r].products, 1, idx[r] - 1), p)
                /\ stock[p] =
                     stock0[p] - SumOver(Requests,
                                         [q \in Requests |-> decremented[q][p]])

\* C20 witness: a 409 at the second line, after the first line took units
\* of another product that are still missing from the stock.
C20_Witness ==
    \E r \in Requests :
        /\ response[r].code = 409
        /\ idx[r] = 2
        /\ \E p \in Products :
            /\ body[r].products[1].productId = p
            /\ body[r].products[2].productId # p
            /\ decremented[r][p] = body[r].products[1].quantity
            /\ stock[p] < stock0[p]
            /\ \A q \in Requests \ {r} : decremented[q][p] = 0

\* ------------------------------------------------- claims: access to orders
\* The orders of the collection, as the request found it, with the id named.
Named == {o \in last.before : o.id = last.arg}

Queries == {"getAllOrders", "getOrderByOrderId", "getOrdersByUserId"}

\* C12: updateOrderStatus by a non-admin caller changes an order's status
\* only if the caller owns the order; for another user's order or a missing
\* one it answers 404, leaves every order as it was and derives no
\* transaction. An admin caller changes the status of any existing order.
C12_StatusUpdateScopedByOwner ==
    last.op = "updateOrderStatus" =>
        IF /\ Named # {}
           /\ last.caller.role = "admin"
                \/ \A o \in Named : o.user = last.caller.id
        THEN /\ last.code # 404
             /\ last.after = (last.before \ Named)
                    \cup {[o EXCEPT !.status = last.status] : o \in Named}
        ELSE /\ last.code = 404
             /\ last.after = last.before
             /\ uPc[last.u] = "done"
             /\ uCode[last.u] = 404
             /\ (\A v \in Updates \ {last.u} : uPc[v] = "idle")
                  => transactions = EmptyBag

\* C12 witness: a customer asked to complete the order of the other
\* customer and was answered 404.
C12_Witness ==
    /\ last.op = "updateOrderStatus"
    /\ last.caller.role = "customer"
    /\ last.status = "completed"
    /\ \E o \in Named : o.user # last.caller.id /\ o.status # "completed"
    /\ last.code = 404

\* C13: getAllOrders gives an admin every stored order and a non-admin
\* caller exactly the stored orders whose user is the caller.
C13_ListOrdersScoped ==
    last.op = "getAllOrders" =>
        /\ last.code = 200
        /\ last.result =
             IF last.caller.role = "admin" THEN last.before
             ELSE {o \in last.before : o.user = last.caller.id}

\* C13 witness: a customer listed while an order of theirs and an order of
\* another user were stored, and received only their own.
C13_Witness ==
    /\ last.op = "getAllOrders"
    /\ last.caller.role = "customer"
    /\ \E o \in last.before : o.user = last.caller.id
    /\ \E o \in last.before : o.user # last.caller.id
    /\ Cardinality(last.result) = 1

\* C14: through no order query does a non-admin caller receive an order
\* owned by a different user.
C14_QueriesScopedByCaller ==
    (last.op \in Queries /\ last.caller.role # "admin") =>
        \A o \in last.result : o.user = last.caller.id

\* C15: deleteOrder by a customer removes the order named only if the caller
\* owns it, deleteOrder by an admin removes any existing order; the answer is
\* 204 exactly when one order was removed and 404, with nothing removed,
\* when no order matched.
C15_DeleteScopedByOwner ==
    last.op \in {"deleteOrderByCustomer", "deleteOrderByAdmin"} =>
        LET removed == last.before \ last.after
            matching ==
                {o \in Named : last.op = "deleteOrderByCustomer"
                                   => o.user = last.caller.id}
        IN /\ last.after \subseteq last.before
           /\ removed = matching
           /\ last.code \in {204, 404}
           /\ last.code = 204 <=> Cardinality(removed) = 1
           /\ last.code = 404 <=> matching = {}

\* C15 witness: a customer named the other customer's order, got 404 and
\* the order is still stored.
C15_Witness ==
    /\ last.op = "deleteOrderByCustomer"
    /\ \E o \in Named : o.user # last.caller.id /\ o \in last.after
    /\ last.code = 404
\* ------------------------------------------------- claims: cash-flow reports
\* The sum of the amounts of the stored transactions of a type dated from lo
\* to hi, both included.
WindowSum(type, lo, hi) ==
    LET S == {t \in BagToSet(transactions) :
                 t.type = type /\ lo <= t.date /\ t.date <= hi}
    IN SumOver(S, [t \in S |-> t.amount * CopiesIn(t, transactions)])

AllTimeSum(type) ==
    LET S == {t \in BagToSet(transactions) : t.type = type}
    IN SumOver(S, [t \in S |-> t.amount * CopiesIn(t, transactions)])

AllTimeBalance == AllTimeSum("inflow") - AllTimeSum("outflow")

\* C16: the dashboard over the window [startDate, endDate] of periodDays
\* gives totalInflows and totalOutflows as the sums of the amounts dated in
\* the window, bounds included, netCashFlow as their difference,
\* currentBalance as all-time inflows less all-time outflows, cashBurnRate =
\* totalOutflows / periodDays, and runway = floor(currentBalance /
\* cashBurnRate) when cashBurnRate > 0, null otherwise.
C16_DashboardFigures ==
    report.op = "dashboard" =>
        LET d == report.data
            inflows == WindowSum("inflow", report.startDate, report.endDate)
            outflows == WindowSum("outflow", report.startDate, report.endDate)
        IN /\ d.totalInflows = inflows
           /\ d.totalOutflows = outflows
           /\ d.netCashFlow = inflows - outflows
           /\ d.currentBalance = AllTimeBalance
           /\ d.period = report.days
           /\ d.cashBurnRate.num * report.days = outflows * d.cashBurnRate.den
           /\ IF outflows > 0
              THEN /\ Len(d.runway) = 1
                   /\ d.runway[1] * outflows <= AllTimeBalance * report.days
                   /\ AllTimeBalance * report.days < (d.runway[1] + 1) * outflows
              ELSE d.runway = <<>>

\* C16 witness: a dashboard of two days with an outflow dated at the very
\* start of the window, an inflow older than the window, and a runway.
C16_Witness ==
    /\ report.op = "dashboard"
    /\ report.days = 2
    /\ \E t \in BagToSet(transactions) :
          t.type = "outflow" /\ t.date = report.startDate
    /\ \E t \in BagToSet(transactions) :
          t.type = "inflow" /\ t.date < report.startDate
    /\ report.data.totalInflows = 0
    /\ report.data.currentBalance > 0
    /\ report.data.runway # <<>>

\* The sum of one day's transactions of a type that are dated in the window.
DaySum(type, day, lo, hi) ==
    LET S == {t \in BagToSet(transactions) :
                 /\ t.type = type /\ lo <= t.date /\ t.date <= hi
                 /\ DayOf(t.date) = day}
    IN SumOver(S, [t \in S |-> t.amount * CopiesIn(t, transactions)])

\* C17: the history has exactly one record per calendar day of the window,
\* the days of both bounds included, in ascending order, none repeated or
\* skipped; every record has the sums of that day's transactions in the
\* window (0 on a day without any) and netFlow = inflows - outflows.
C17_OneRecordPerDay ==
    report.op = "history" =>
        LET history == report.data
            first == DayOf(report.startDate)
            final == DayOf(report.endDate)
        IN /\ Len(history) = final - first + 1
           /\ \A i \in 1..Len(history) :
                /\ history[i].date = first + i - 1
                /\ history[i].inflows =
                     DaySum("inflow", history[i].date, report.startDate,
                            report.endDate)
                /\ history[i].outflows =
                     DaySum("outflow", history[i].date, report.startDate,
                            report.endDate)
                /\ history[i].netFlow =
                     history[i].inflows - history[i].outflows

\* The transactions of a category and a type dated in the window.
InCategory(type, category) ==
    {t \in BagToSet(transactions) :
        /\ t.type = type /\ t.category = category
        /\ report.startDate <= t.date /\ t.date <= report.endDate}

CategorySum(type, category) ==
    SumOver(InCategory(type, category),
            [t \in InCategory(type, category) |->
                t.amount * CopiesIn(t, transactions)])

CategoryNumber(type, category) ==
    SumOver(InCategory(type, category),
            [t \in InCategory(type, category) |-> CopiesIn(t, transactions)])

\* The entries of a list are those of the categories with a positive sum in
\* the direction, one each, with that direction's sum and number.
ListOfDirection(entries, type) ==
    /\ \A c \in TxCategories :
          (\E i \in 1..Len(entries) : entries[i].category = c)
              <=> CategorySum(type, c) > 0
    /\ \A i, j \in 1..Len(entries) :
          entries[i].category = entries[j].category => i = j
    /\ \A i \in 1..Len(entries) :
          /\ entries[i].amount = CategorySum(type, entries[i].category)
          /\ entries[i].count = CategoryNumber(type, entries[i].category)

\* C18: byCategory lists a category among the inflows iff its inflows in the
\* window sum to more than 0 (likewise the outflows), and an entry's amount
\* and count are the sum and the number of the category's transactions in the
\* window in that direction only.
C18_CategoryEntries ==
    report.op = "byCategory" =>
        /\ ListOfDirection(report.data.inflows, "inflow")
        /\ ListOfDirection(report.data.outflows, "outflow")

\* C19: the forecast for N days has exactly N records; record i has
\* projectedBalance = currentBalance + i x (avgDailyInflow - avgDailyOutflow)
\* rounded to 2 decimals, currentBalance being the all-time balance and the
\* averages the totals of the last 30 days divided by 30; the summary's
\* projectedEndingBalance is the last record's projectedBalance.
C19_ForecastRecords ==
    report.op = "forecast" =>
        LET f == report.data.forecast
            net == WindowSum("inflow", report.startDate, report.endDate)
                     - WindowSum("outflow", report.startDate, report.endDate)
            span == report.endDate - report.startDate
            \* 100 x (currentBalance + i x net / 30), times 30
            scaled(i) == 100 * (BasedOnDays * AllTimeBalance + i * net)
        IN /\ span \in {BasedOnDays * TicksPerDay - 1, BasedOnDays * TicksPerDay}
           /\ Len(f) = report.days
           /\ report.data.startingBalance = AllTimeBalance
           /\ \A i \in 1..Len(f) :
                \* the hundredths nearest to the quotient, the upper at a half
                /\ 2 * BasedOnDays * f[i].projectedBalance - BasedOnDays
                     <= 2 * scaled(i)
                /\ 2 * scaled(i)
                     < 2 * BasedOnDays * f[i].projectedBalance + BasedOnDays
           /\ Len(f) >= 1 =>
                report.data.projectedEndingBalance = f[Len(f)].projectedBalance

\* C19 witness: a forecast of two days whose daily net is not a whole number
\* of hundredths, from a balance that includes a transaction older than the
\* thirty days.
C19_Witness ==
    /\ report.op = "forecast"
    /\ report.days = 2
    /\ \E t \in BagToSet(transactions) : t.date < report.startDate
    /\ LET net == WindowSum("inflow", report.startDate, report.endDate)
                    - WindowSum("outflow", report.startDate, report.endDate)
       IN (100 * net) % BasedOnDays # 0
    /\ report.data.forecast[2].projectedBalance
         # report.data.forecast[1].projectedBalance
    /\ report.data.projectedEndingBalance
         = report.data.forecast[2].projectedBalance

\* ------------------------------------------------- claims: conflicts, status
\* The products the lines of the call name.
ProductsOf(r) ==
    {body[r].products[i].productId : i \in 1..Len(body[r].products)}

\* C21: createOrder answers 409 only when another order took stock of one of
\* its products after the call arrived: since then the stock of one of its
\* products went down by more than the call itself took. A call that runs
\* with no other request interleaved never answers 409.
C21_ConflictOnlyFromConcurrency ==
    \A r \in Requests :
        response[r].code = 409 =>
            \E p \in ProductsOf(r) \cap Products :
                stockAtCall[r][p] - stock[p] > decremented[r][p]

\* C22: completed is a terminal status: once an order is stored as completed
\* no updateOrderStatus call changes its status to another value, and the
\* status of every stored order is always one of pending, processing,
\* shipped, delivered, completed.
C22_CompletedIsTerminal ==
    /\ [](\A o \in orders : o.status \in OrderStatusEnum \cup {"completed"})
    /\ [][\A o \in orders : \A n \in orders' :
              (o.status = "completed" /\ n.id = o.id)
                  => n.status = "completed"]_vars

\* ------------------------------------------------------ claims: bulk sync
\* C23: after a bulk sync run that answered with success, every completed
\* order of the range it was asked for has its revenue, cost-of-goods and
\* shipping transactions stored, whatever happened before the run (the runs
\* follow one another).
C23_SyncLeavesNoOrderLacking ==
    \A s \in Syncs :
        (sequential /\ sPc[s] = "done") =>
            \A i \in 1..Len(sOrders[s]) :
                /\ CategoryCount(sOrders[s][i].id, "product_sales") >= 1
                /\ CategoryCount(sOrders[s][i].id, "cost_of_goods_sold") >= 1
                /\ CategoryCount(sOrders[s][i].id, "shipping_costs") >= 1

\* ------------------------------------------------------ claims: deleteOrder
Deletions == {"deleteOrderByCustomer", "deleteOrderByAdmin"}

\* C24: deleteOrder changes nothing but the order it removes: no product's
\* stockQuantity changes (nothing is given back) and no cash-flow
\* transaction changes, those that name the removed order included.
C24_DeleteChangesNothingElse ==
    [][(last' # last /\ last'.op \in Deletions) =>
          /\ stock' = stock
          /\ transactions' = transactions
          /\ orders' \subseteq orders
          /\ \A o \in orders \ orders' : o.id = last'.arg]_vars

\* C24 witness: an order was removed whose three transactions are stored
\* still, under its id, and its units are not back in the stock.
C24_Witness ==
    /\ last.op \in Deletions
    /\ last.code = 204
    /\ \A o \in orders : o.id # last.arg
    /\ ExistingTransactions(last.arg) = 3
    /\ \A p \in Products : stock[p] = stock0[p]

\* ------------------------------------------------------ claims: overselling
\* The units of a product over the lines of all stored orders.
Sold(p) == SumOver(orders, [o \in orders |-> LineTotal(o.products, p)])

\* The units of a product that left the stock since the start.
Taken(p) == stock0[p] - stock[p]

\* The call took units and answered with a failure.
FailedAfterDecrement(r) ==
    /\ response[r].code \in {409, 500}
    /\ \E p \in Products : decremented[r][p] > 0

\* The call took units and has not saved its order yet.
BetweenDecrementAndSave(r) ==
    /\ pc[r] \in {"decrement", "save"}
    /\ \E p \in Products : decremented[r][p] > 0

\* The order the call created has been deleted.
OrderDeleted(r) == response[r].code = 201 /\ ~HasOrder(r)

\* No createOrder call is under way.
Quiescent == \A r \in Requests : pc[r] \in {"idle", "done"}

\* C25 as stated: for every product the units in stored orders are at most
\* the units taken from the stock, and fewer only after a createOrder call
\* that decremented stock and then failed (read in favour of the statement:
\* fewer, while no call is under way, only after such a call).
C25_StrictOnlyAfterFailure ==
    \A p \in Products :
        /\ Sold(p) <= Taken(p)
        /\ Taken(p) <= stock0[p]
        /\ (Quiescent /\ Sold(p) < Taken(p))
             => \E r \in Requests : FailedAfterDecrement(r)

\* C25: no overselling. For every product the units in stored orders are at
\* most the units taken from the stock, which are at most the initial stock;
\* the difference is exactly what was taken by the calls that have no stored
\* order, and each of those failed after decrementing, is between its
\* decrements and its save, or had its order deleted.
C25_NoOverselling ==
    /\ \A p \in Products :
        /\ Sold(p) <= Taken(p)
        /\ Taken(p) <= stock0[p]
        /\ Taken(p) - Sold(p) =
             SumOver({r \in Requests : ~HasOrder(r)},
                     [r \in Requests |-> decremented[r][p]])
    /\ \A r \in Requests :
         (~HasOrder(r) /\ \E p \in Products : decremented[r][p] > 0) =>
             \/ FailedAfterDecrement(r)
             \/ BetweenDecrementAndSave(r)
             \/ OrderDeleted(r)

\* C25 witness: an order was created and deleted, no call failed and none is
\* under way, and the units it took are missing from the stock.
C25_Witness ==
    /\ \E r \in Requests : OrderDeleted(r)
    /\ \A r \in Requests :
          ~FailedAfterDecrement(r) /\ ~BetweenDecrementAndSave(r)
    /\ \E p \in Products : Sold(p) < Taken(p)
====
